---- MODULE Spec2Model ----
(***************************************************************************)
(* Model of src/src/index-discord.js: the Discord bridge's monitoring      *)
(* loop (startMonitorPolling / scheduleNextPoll), the state-change         *)
(* handler, the inbound message handler and the shutdown sequence.        *)
(*                                                                         *)
(* Every action is one run-to-completion segment of the Node.js event     *)
(* loop: the code from the start of a callback (or from the resumption    *)
(* of an await) up to its next await or its return.                        *)
(***************************************************************************)
EXTENDS Integers, Sequences, FiniteSets

-----------------------------------------------------------------------------
(* Bounds of the model (environment budgets, not program constants).       *)

\* how many sampling processes the environment lets fail with an 'error' event
MaxSpawnErrors == 1
\* how many classifications / notification sends may be pending at once
MaxPendingEvals == 1
\* capacity of the inbound idempotency cache (config.deduplication.maxSize)
DedupMaxSize == 1

\* how many outputs (texts, help messages) one slash command produces at most
MaxOutputs == 2

\* how many chunks messenger.splitMessage splits one text into at most
MaxChunks == 2

\* the Discord message ids the environment delivers (and redelivers)
MsgIds == {"m1", "m2"}

\* tmux session names; "none" is what getCurrentSession() returns when no
\* session is available
Sessions == {"s1"}
NoSession == "none"

\* sessions created after startup, which a switch command can select
LaterSessions == {"s2"}
SessionRefs == Sessions \cup LaterSessions \cup {NoSession}

-----------------------------------------------------------------------------
VARIABLES
  mainPc,             \* position of main(): "start", "login", "running", "exited"
  isDiscordConnected, \* let isDiscordConnected
  readyPc,            \* ClientReady handler: "waiting", "registering", "done"
  currentSession,     \* sessionManager.getCurrentSession()
  monitorTimeout,     \* let monitorTimeout: "null", "pending" (refers to a pending
                      \* timer), "spent" (refers to a fired or cleared timer)
  orphanTimers,       \* pending next-tick timers monitorTimeout no longer refers to
  procs,              \* sampling processes spawned and not yet closed: how many
                      \* there are in each state of ProcStates
  captureTarget,      \* per state of ProcStates and per session: how many of the
                      \* processes in that state were spawned with -t session
  fedStale,           \* a close handler wrote to the buffer and classified a
                      \* sample of a session that was no longer the current one
  errBudget,          \* 'error' events the environment may still produce
  detecting,          \* detector.detect() promises not yet settled
  detectingKilled,    \* those of them whose sample came from a killed process
  sending,            \* handleStateChange calls suspended in await messenger.sendText
  lastEval,           \* the most recently evaluated sample, see EvalRec
  prevEval,           \* the sample evaluated before lastEval, see PrevRec
  shutdownPc,         \* shutdown(): "idle", "awaitStop", "done"
  shutdownLog,        \* the steps shutdown() has performed, in order
  dedup,              \* inbound idempotency cache: keys, oldest first
  routed,             \* per id: router.route calls in the current TTL window (2 = more)
  evicted,            \* per id: evicted under size pressure in the current TTL window
  dropped,            \* per id: a delivery was dropped as a duplicate in that window
  routeRejected,      \* per id: a router.route call for it rejected in that window
  routerFailing,      \* router.route(...) rejects when called (its target is down)
  filteredSeen,       \* handleDiscordMessage returned at one of its filters
  lateInboundWrite,   \* markProcessed ran after deduplicator.destroy()
  lateOutboundSend,   \* messenger.sendText ran after messageHistory.destroy()
  exitCode,           \* the argument of the process.exit call that ended the
                      \* process: "0" or "1"; "none" while it runs
  mainFailed,         \* the step of main() that threw into main's catch:
                      \* "validate", "login"; "no" if none did
  shutdownBy,         \* what made the first call of shutdown(): "signal",
                      \* "exception", "rejection"; "none" before it
  ixPc,               \* handleInteraction for the interaction at hand: "idle",
                      \* "deferring", "handling" (in the command handler),
                      \* "editing" / "following" (awaiting editReply / followUp of
                      \* a text chunk), "helpEditing" / "helpFollowing" (of the
                      \* help embed), "errFollowUp" / "errReply" (awaiting the
                      \* error report of the catch), "done"
  replied,            \* let replied of that handleInteraction call
  ixDeferred,         \* interaction.deferred
  ixReplied,          \* interaction.replied
  chunksLeft,         \* chunks of the text being sent that are not delivered yet
  helpPc,             \* "fallback" while sendHelp's catch sends the plain text
  outputsLeft,        \* outputs the command handler may still produce
  editCalls,          \* interaction.editReply calls made for the interaction
  followCalls,        \* interaction.followUp calls made for it
  replyCalls,         \* interaction.reply calls made for it
  delivered           \* outputs (chunks, embeds) delivered for it

vars == << mainPc, isDiscordConnected, readyPc, currentSession, monitorTimeout,
           orphanTimers, procs, captureTarget, fedStale, errBudget, detecting,
           detectingKilled, sending, lastEval, prevEval,
           shutdownPc, shutdownLog, dedup, routed, evicted, dropped, routeRejected,
           routerFailing, filteredSeen,
           lateInboundWrite, lateOutboundSend, exitCode, mainFailed, shutdownBy,
           ixPc, replied, ixDeferred, ixReplied, chunksLeft, helpPc, outputsLeft,
           editCalls, followCalls, replyCalls, delivered >>

pollVars == << monitorTimeout, orphanTimers, procs, captureTarget, fedStale, errBudget,
               detecting, detectingKilled, sending, lastEval, prevEval, lateOutboundSend >>
msgVars == << dedup, routed, evicted, dropped, routeRejected, routerFailing, filteredSeen,
              lateInboundWrite >>
exitVars == << exitCode, mainFailed, shutdownBy >>
ixVars == << ixPc, replied, ixDeferred, ixReplied, chunksLeft, helpPc, outputsLeft,
             editCalls, followCalls, replyCalls, delivered >>

-----------------------------------------------------------------------------
(* Classification results.                                                 *)

\* detector.detect() resolves to null or to a result whose type is one of
\* these ("plan_mode" stands for the whole group of cases that only log;
\* "unknown" is a type the switch has no case for), or it rejects.
DetectTypes == {"input_prompt", "completed", "error", "plan_mode", "unknown"}
DetectOutcomes == {"null", "rejected"} \cup DetectTypes

\* an evaluated sample: what its classification was, how often
\* handleStateChange was invoked for it, how many notifications it sent
EvalRec(r, h, s) == [result |-> r, hsc |-> h, sent |-> s]

\* handleStateChange's switch: the number of messenger.sendText calls it makes
SendsFor(type) ==
  CASE type = "error" -> 0
    [] type \in {"plan_mode", "testing", "git_operation", "warning", "idle_input"} -> 0
    [] type = "input_prompt" -> 1
    [] type = "completed" -> 1
    [] OTHER -> 0

\* the close handler's .then callback: if (stateResult) handleStateChange(...)
InvokesHandlerAlways(outcome) == outcome # "rejected"
InvokesHandler(outcome) == outcome \notin {"null", "rejected"}

-----------------------------------------------------------------------------
(* Timers.                                                                 *)

PendingTimers == orphanTimers + (IF monitorTimeout = "pending" THEN 1 ELSE 0)

\* monitorTimeout = setTimeout(scheduleNextPoll, interval): a new timer is
\* pending and monitorTimeout refers to it; a timer it referred to before
\* stays pending, unreferenced
ArmTimer ==
  /\ orphanTimers' = orphanTimers + (IF monitorTimeout = "pending" THEN 1 ELSE 0)
  /\ monitorTimeout' = "pending"

\* the close handler: if (isDiscordConnected) monitorTimeout = setTimeout(...)
CloseReschedulesOnlyWithData(hasData) == isDiscordConnected /\ hasData
CloseReschedulesAfterSend(hasData) == isDiscordConnected /\ sending = 0
CloseReschedules(hasData) == isDiscordConnected

\* a sampling process is running, or was killed (on its timeout, or by
\* processManager.stop()) and has not closed yet, or has emitted 'error' and
\* has not closed yet
ProcStates == {"running", "killed", "errored"}

InFlight == procs["running"] + procs["killed"] + procs["errored"]

\* one process moves from state a to state b
Move(ps, a, b) == [ps EXCEPT ![a] = @ - 1, ![b] = @ + 1]

\* the same for the process spawned with -t s
MoveTarget(ct, a, b, s) == [ct EXCEPT ![a][s] = @ - 1, ![b][s] = @ + 1]

\* what is remembered of the sample evaluated before the last one: whether it
\* was classified input_prompt, and how many notifications it sent
PrevRec(e) == [prompt |-> e.result = "input_prompt", sent |-> e.sent]

Range(s) == {s[i] : i \in 1..Len(s)}

Alive == mainPc \in {"login", "running"}

-----------------------------------------------------------------------------
(* main() and the ClientReady handler.                                     *)

Init ==
  /\ mainPc = "start"
  /\ isDiscordConnected = FALSE
  /\ readyPc = "waiting"
  /\ currentSession = NoSession
  /\ monitorTimeout = "null"
  /\ orphanTimers = 0
  /\ procs = [st \in ProcStates |-> 0]
  /\ captureTarget = [st \in ProcStates |-> [s \in SessionRefs |-> 0]]
  /\ fedStale = FALSE
  /\ detectingKilled = 0
  /\ errBudget = MaxSpawnErrors
  /\ detecting = 0
  /\ sending = 0
  /\ lastEval = EvalRec("init", 0, 0)
  /\ prevEval = PrevRec(EvalRec("init", 0, 0))
  /\ shutdownPc = "idle"
  /\ shutdownLog = << >>
  /\ dedup = << >>
  /\ routed = [i \in MsgIds |-> 0]
  /\ evicted = [i \in MsgIds |-> FALSE]
  /\ dropped = [i \in MsgIds |-> FALSE]
  /\ routeRejected = [i \in MsgIds |-> FALSE]
  /\ routerFailing = FALSE
  /\ filteredSeen = FALSE
  /\ lateInboundWrite = FALSE
  /\ lateOutboundSend = FALSE
  /\ exitCode = "none"
  /\ mainFailed = "no"
  /\ shutdownBy = "none"
  /\ ixPc = "idle"
  /\ replied = FALSE
  /\ ixDeferred = FALSE
  /\ ixReplied = FALSE
  /\ chunksLeft = 0
  /\ helpPc = "none"
  /\ outputsLeft = 0
  /\ editCalls = 0
  /\ followCalls = 0
  /\ replyCalls = 0
  /\ delivered = 0

\* main() up to await discordClient.login(): validateDiscordConfig() throws
\* (catch: process.exit(1)), or the components are constructed,
\* autoSelectSession() picks the session, the Discord events are registered
MainStart ==
  /\ mainPc = "start"
  /\ \/ /\ mainPc' = "exited"
        /\ exitCode' = "1"
        /\ mainFailed' = "validate"
        /\ UNCHANGED currentSession
     \/ /\ mainPc' = "login"
        /\ \E s \in Sessions \cup {NoSession} : currentSession' = s
        /\ UNCHANGED << exitCode, mainFailed >>
  /\ UNCHANGED shutdownBy
  /\ UNCHANGED << isDiscordConnected, readyPc, shutdownPc, shutdownLog >>
  /\ UNCHANGED pollVars
  /\ UNCHANGED msgVars
  /\ UNCHANGED ixVars

\* await discordClient.login() resolves: the signal handlers are registered
LoginResolve ==
  /\ mainPc = "login"
  /\ mainPc' = "running"
  /\ UNCHANGED << isDiscordConnected, readyPc, currentSession, shutdownPc, shutdownLog >>
  /\ UNCHANGED pollVars
  /\ UNCHANGED msgVars
  /\ UNCHANGED exitVars
  /\ UNCHANGED ixVars

\* await discordClient.login() rejects: catch, process.exit(1)
LoginReject ==
  /\ mainPc = "login"
  /\ readyPc = "waiting"
  /\ mainPc' = "exited"
  /\ exitCode' = "1"
  /\ mainFailed' = "login"
  /\ UNCHANGED shutdownBy
  /\ UNCHANGED << isDiscordConnected, readyPc, currentSession, shutdownPc, shutdownLog >>
  /\ UNCHANGED pollVars
  /\ UNCHANGED msgVars
  /\ UNCHANGED ixVars

\* what the ClientReady handler assigns to isDiscordConnected before its awaits
ReadyLeavesFlag == isDiscordConnected
ReadySetsFlag == TRUE

\* ClientReady handler (registered with once), up to its first await
ClientReadyBegin ==
  /\ Alive
  /\ readyPc = "waiting"
  /\ isDiscordConnected' = ReadySetsFlag
  /\ readyPc' = "registering"
  /\ UNCHANGED << mainPc, currentSession, shutdownPc, shutdownLog >>
  /\ UNCHANGED pollVars
  /\ UNCHANGED msgVars
  /\ UNCHANGED exitVars
  /\ UNCHANGED ixVars

\* ClientReady handler after the slash-command registration settled (either
\* way): transcriptMonitor.start(), then startMonitorPolling() if a session
\* is current; startMonitorPolling arms the first timer
ClientReadyFinish ==
  /\ Alive
  /\ readyPc = "registering"
  /\ readyPc' = "done"
  /\ IF currentSession # NoSession
       THEN ArmTimer
       ELSE UNCHANGED << monitorTimeout, orphanTimers >>
  /\ UNCHANGED << mainPc, isDiscordConnected, currentSession, shutdownPc, shutdownLog >>
  /\ UNCHANGED << procs, captureTarget, fedStale, errBudget, detecting, detectingKilled,
                  sending, lastEval, prevEval, lateOutboundSend >>
  /\ UNCHANGED msgVars
  /\ UNCHANGED exitVars
  /\ UNCHANGED ixVars

-----------------------------------------------------------------------------
(* The monitoring loop: startMonitorPolling / scheduleNextPoll.            *)

messageHistoryDestroyed == "historyDestroy" \in Range(shutdownLog)
deduplicatorDestroyed == "dedupDestroy" \in Range(shutdownLog)
clientDestroyed == "clientDestroy" \in Range(shutdownLog)

\* a pending timer fires and runs scheduleNextPoll: return if the flag is
\* false, else spawn tmux capture-pane for the current session and register
\* the data, close and error handlers
scheduleNextPoll ==
  /\ Alive
  /\ \/ /\ monitorTimeout = "pending"
        /\ monitorTimeout' = "spent"
        /\ UNCHANGED orphanTimers
     \/ /\ orphanTimers > 0
        /\ orphanTimers' = orphanTimers - 1
        /\ UNCHANGED monitorTimeout
  /\ IF ~isDiscordConnected
       THEN UNCHANGED << procs, captureTarget >>
       ELSE /\ procs' = [procs EXCEPT !["running"] = @ + 1]
            /\ captureTarget' = [captureTarget EXCEPT !["running"][currentSession] = @ + 1]
  /\ UNCHANGED << mainPc, isDiscordConnected, readyPc, currentSession, shutdownPc, shutdownLog >>
  /\ UNCHANGED << fedStale, errBudget, detecting, detectingKilled, sending, lastEval,
                  prevEval, lateOutboundSend >>
  /\ UNCHANGED msgVars
  /\ UNCHANGED exitVars
  /\ UNCHANGED ixVars

\* the process manager's 10 s deadline fires for a running sampling process:
\* it is killed, and closes later
ProcTimeout ==
  /\ Alive
  /\ procs["running"] > 0
  /\ procs' = Move(procs, "running", "killed")
  /\ \E s \in SessionRefs :
       /\ captureTarget["running"][s] > 0
       /\ captureTarget' = MoveTarget(captureTarget, "running", "killed", s)
  /\ UNCHANGED << mainPc, isDiscordConnected, readyPc, currentSession, shutdownPc, shutdownLog >>
  /\ UNCHANGED << monitorTimeout, orphanTimers, fedStale, errBudget, detecting,
                  detectingKilled, sending, lastEval, prevEval, lateOutboundSend >>
  /\ UNCHANGED msgVars
  /\ UNCHANGED exitVars
  /\ UNCHANGED ixVars

\* refreshMonitor.on('error'): log, then arm a timer whatever the flag is.
\* The process emits 'close' after its 'error'.
ProcError ==
  /\ Alive
  /\ errBudget > 0
  /\ procs["running"] > 0
  /\ procs' = Move(procs, "running", "errored")
  /\ \E s \in SessionRefs :
       /\ captureTarget["running"][s] > 0
       /\ captureTarget' = MoveTarget(captureTarget, "running", "errored", s)
  /\ errBudget' = errBudget - 1
  /\ ArmTimer
  /\ UNCHANGED << mainPc, isDiscordConnected, readyPc, currentSession, shutdownPc, shutdownLog >>
  /\ UNCHANGED << fedStale, detecting, detectingKilled, sending, lastEval, prevEval,
                  lateOutboundSend >>
  /\ UNCHANGED msgVars
  /\ UNCHANGED exitVars
  /\ UNCHANGED ixVars

\* the close handler's condition for writing the sample to the buffer and
\* classifying it: if (newBuffer)
FeedsSampleAlways(hasData) == TRUE
FeedsSample(hasData) == hasData

\* refreshMonitor.on('close'): a non-empty sample goes to the buffer and to
\* detector.detect(), whose promise stays pending; then the next tick is
\* armed if the flag is true. The process was spawned with -t s. A process
\* that could not be spawned has written nothing; one that was killed may
\* have written a part of its output before.
ProcClose ==
  /\ Alive
  /\ \E st \in ProcStates, hasData \in BOOLEAN, s \in SessionRefs :
       /\ procs[st] > 0
       /\ captureTarget[st][s] > 0
       /\ hasData => st # "errored"
       /\ hasData => detecting + sending < MaxPendingEvals
       /\ procs' = [procs EXCEPT ![st] = @ - 1]
       /\ captureTarget' = [captureTarget EXCEPT ![st][s] = @ - 1]
       /\ IF FeedsSample(hasData)
            THEN /\ detecting' = detecting + 1
                 /\ detectingKilled' = detectingKilled + (IF st = "killed" THEN 1 ELSE 0)
                 /\ fedStale' = (fedStale \/ s # currentSession)
                 /\ UNCHANGED << lastEval, prevEval >>
            ELSE /\ lastEval' = EvalRec("empty", 0, 0)
                 /\ prevEval' = PrevRec(lastEval)
                 /\ UNCHANGED << detecting, detectingKilled, fedStale >>
       /\ IF CloseReschedules(hasData)
            THEN ArmTimer
            ELSE UNCHANGED << monitorTimeout, orphanTimers >>
  /\ UNCHANGED << mainPc, isDiscordConnected, readyPc, currentSession, shutdownPc, shutdownLog >>
  /\ UNCHANGED << errBudget, sending, lateOutboundSend >>
  /\ UNCHANGED msgVars
  /\ UNCHANGED exitVars
  /\ UNCHANGED ixVars

\* detector.detect() settles. Resolved: handleStateChange runs, for a
\* non-null result, up to its await messenger.sendText (or to its end).
\* Rejected: the catch logs.
DetectSettle ==
  /\ Alive
  /\ detecting > 0
  /\ \E r \in DetectOutcomes :
       LET invoked == InvokesHandler(r)
           sends == IF invoked THEN SendsFor(r) ELSE 0
       IN /\ \/ /\ detectingKilled > 0
                /\ detectingKilled' = detectingKilled - 1
             \/ /\ detecting > detectingKilled
                /\ UNCHANGED detectingKilled
          /\ detecting' = detecting - 1
          /\ sending' = sending + sends
          /\ lateOutboundSend' = (lateOutboundSend \/ (sends > 0 /\ messageHistoryDestroyed))
          /\ lastEval' = EvalRec(r, IF invoked THEN 1 ELSE 0, sends)
          /\ prevEval' = PrevRec(lastEval)
  /\ UNCHANGED << mainPc, isDiscordConnected, readyPc, currentSession, shutdownPc, shutdownLog >>
  /\ UNCHANGED << monitorTimeout, orphanTimers, procs, captureTarget, fedStale, errBudget >>
  /\ UNCHANGED msgVars
  /\ UNCHANGED exitVars
  /\ UNCHANGED ixVars

\* await messenger.sendText settles in handleStateChange (resolved, or
\* rejected and logged by the catch): the call ends
SendSettle ==
  /\ Alive
  /\ sending > 0
  /\ sending' = sending - 1
  /\ UNCHANGED << mainPc, isDiscordConnected, readyPc, currentSession, shutdownPc, shutdownLog >>
  /\ UNCHANGED << monitorTimeout, orphanTimers, procs, captureTarget, fedStale, errBudget,
                  detecting, detectingKilled, lastEval,
                  prevEval, lateOutboundSend >>
  /\ UNCHANGED msgVars
  /\ UNCHANGED exitVars
  /\ UNCHANGED ixVars

-----------------------------------------------------------------------------
(* shutdown().                                                             *)

\* the steps of shutdown() up to its await, in the order of the code
BeforeAwaitDestroysCaches == << "clearTimeout", "dedupDestroy", "historyDestroy", "stopCalled" >>
BeforeAwait == << "clearTimeout", "stopCalled" >>

\* the steps of shutdown() once await processManager.stop() has resolved,
\* in the order of the code; process.exit(0) follows them
AfterAwaitClientFirst == << "stopResolved", "clientDestroy", "dedupDestroy", "historyDestroy",
                            "transcriptStop" >>
AfterAwait == << "stopResolved", "dedupDestroy", "historyDestroy", "transcriptStop",
                 "clientDestroy" >>

\* the log with those of the steps appended that it does not hold yet
AppendNew(log, steps) == log \o SelectSeq(steps, LAMBDA x : x \notin Range(log))

\* processManager.stop(): every tracked process is sent a termination signal
StopSignals(ps) ==
  [ps EXCEPT !["running"] = 0, !["killed"] = @ + ps["running"]]

\* the same per session the processes were spawned for
StopSignalsTarget(ct) ==
  [ct EXCEPT !["running"] = [s \in SessionRefs |-> 0],
             !["killed"] = [s \in SessionRefs |-> @[s] + ct["running"][s]]]

\* shutdown() is called, possibly again while an earlier call awaits: it runs
\* up to await processManager.stop(). clearTimeout runs only if
\* (monitorTimeout). shutdownLog holds the steps of the first call, the one
\* whose await resumes first and ends the process.
shutdown(trigger) ==
  /\ mainPc = "running"
  /\ shutdownBy' = IF shutdownPc = "idle" THEN trigger ELSE shutdownBy
  /\ UNCHANGED << exitCode, mainFailed >>
  /\ LET steps == SelectSeq(BeforeAwait,
                            LAMBDA x : x = "clearTimeout" => monitorTimeout # "null")
     IN /\ shutdownLog' = IF shutdownPc = "idle" THEN AppendNew(shutdownLog, steps)
                                                  ELSE shutdownLog
        /\ monitorTimeout' = IF "clearTimeout" \in Range(steps) /\ monitorTimeout = "pending"
                               THEN "spent" ELSE monitorTimeout
        /\ procs' = IF "stopCalled" \in Range(steps) THEN StopSignals(procs) ELSE procs
        /\ captureTarget' = IF "stopCalled" \in Range(steps)
                              THEN StopSignalsTarget(captureTarget) ELSE captureTarget
  /\ shutdownPc' = "awaitStop"
  /\ UNCHANGED << mainPc, isDiscordConnected, readyPc, currentSession >>
  /\ UNCHANGED << orphanTimers, fedStale, errBudget, detecting, detectingKilled, sending,
                  lastEval, prevEval, lateOutboundSend >>
  /\ UNCHANGED msgVars
  /\ UNCHANGED ixVars

\* SIGINT or SIGTERM: process.on(signal, shutdown)
ShutdownBegin ==
  /\ mainPc = "running"
  /\ shutdown("signal")

\* process.on('uncaughtException'): log, then await shutdown()
UncaughtException ==
  /\ mainPc = "running"
  /\ shutdown("exception")

\* process.on('unhandledRejection'): log; in production await shutdown(),
\* otherwise a warning and the service continues
UnhandledRejection ==
  \E isProduction \in BOOLEAN :
    IF isProduction
      THEN shutdown("rejection")
      ELSE mainPc = "running" /\ UNCHANGED vars

\* await processManager.stop() settles and shutdown() runs to process.exit(0),
\* whoever called it: the process ends there, and the process.exit(1) that
\* follows await shutdown() in the two fault handlers is never reached.
\* stop() resolves once every tracked process has closed. The k-th of the
\* steps that follow throws (k = 1: stop() rejected) and the catch skips the
\* rest, or none throws (k beyond the last step).
ShutdownResume ==
  /\ mainPc = "running"
  /\ shutdownPc = "awaitStop"
  /\ \E k \in 1..(Len(AfterAwait) + 1) :
       /\ k > 1 => InFlight = 0
       /\ shutdownLog' = AppendNew(shutdownLog, SubSeq(AfterAwait, 1, k - 1))
  /\ shutdownPc' = "done"
  /\ mainPc' = "exited"
  /\ exitCode' = "0"
  /\ UNCHANGED << mainFailed, shutdownBy >>
  /\ UNCHANGED << isDiscordConnected, readyPc, currentSession >>
  /\ UNCHANGED pollVars
  /\ UNCHANGED msgVars
  /\ UNCHANGED ixVars

-----------------------------------------------------------------------------
(* Inbound messages: handleDiscordMessage and the inbound idempotency      *)
(* cache (MessageDeduplicator).                                            *)

\* message contents: strings over a blank and a letter
Contents == { << >>, << " " >>, << "a" >>, << " ", "a" >> }

\* !content || content.trim().length === 0
IsBlank(content) == Len(content) = 0 \/ \A i \in 1..Len(content) : content[i] = " "

\* deduplicator.isProcessed(key)
isProcessed(cache, id) == id \in Range(cache)

\* deduplicator.markProcessed(key): a present key is left alone; a new key
\* evicts the oldest entry first when the cache is full
markProcessed(cache, id) ==
  IF id \in Range(cache) THEN cache
  ELSE IF Len(cache) >= DedupMaxSize THEN Append(Tail(cache), id)
  ELSE Append(cache, id)

\* handleDiscordMessage's filters: bot author, other channel, blank content
FilteredIgnoresContent(bot, chanOk, content) == bot \/ ~chanOk
Filtered(bot, chanOk, content) == bot \/ ~chanOk \/ IsBlank(content)

\* handleDiscordMessage's dedup check: if (deduplicator.isProcessed(eventId)) return
DropsNothing(id) == FALSE
DropsDuplicate(id) == isProcessed(dedup, id)

\* whether deduplicator.markProcessed(eventId) has run for a message that
\* passed the checks, given that its router.route call rejects or not: it
\* runs before the call
MarksKeyOnSuccess(rejects) == ~rejects
MarksKey(rejects) == TRUE

\* handleDiscordMessage(message), to its end: the filters, the dedup check,
\* markProcessed, await router.route(...), whose rejection the catch logs
HandleMessage(id, bot, chanOk, content) ==
  IF Filtered(bot, chanOk, content)
    THEN /\ filteredSeen' = TRUE
         /\ UNCHANGED << dedup, routed, evicted, dropped, routeRejected, lateInboundWrite >>
  ELSE IF DropsDuplicate(id)
    THEN /\ dropped' = [dropped EXCEPT ![id] = TRUE]
         /\ UNCHANGED << dedup, routed, evicted, routeRejected, filteredSeen,
                         lateInboundWrite >>
    ELSE /\ dedup' = IF MarksKey(routerFailing) THEN markProcessed(dedup, id) ELSE dedup
         /\ evicted' = [j \in MsgIds |->
                          IF j \in Range(dedup) /\ j \notin Range(dedup')
                            THEN TRUE ELSE evicted[j]]
         /\ routed' = [routed EXCEPT ![id] = IF @ >= 2 THEN 2 ELSE @ + 1]
         /\ routeRejected' = [routeRejected EXCEPT ![id] = @ \/ routerFailing]
         /\ lateInboundWrite' = (lateInboundWrite \/ deduplicatorDestroyed)
         /\ UNCHANGED << dropped, filteredSeen >>

\* the text messages users write in the target channel, one for each id
TextMessages ==
  { [id |-> "m1", bot |-> FALSE, chanOk |-> TRUE, content |-> << "a" >>],
    [id |-> "m2", bot |-> FALSE, chanOk |-> TRUE, content |-> << " ", "a" >>] }

\* the other messages the gateway delivers: of a bot, of another channel,
\* without text, with blank text
OtherMessages ==
  { [id |-> "m1", bot |-> TRUE, chanOk |-> TRUE, content |-> << "a" >>],
    [id |-> "m1", bot |-> FALSE, chanOk |-> FALSE, content |-> << "a" >>],
    [id |-> "m1", bot |-> FALSE, chanOk |-> TRUE, content |-> << >>],
    [id |-> "m2", bot |-> FALSE, chanOk |-> TRUE, content |-> << " " >>] }

\* Events.MessageCreate for a text message of the target channel
handleDiscordMessage ==
  /\ Alive
  /\ readyPc # "waiting"
  /\ \E message \in TextMessages :
       HandleMessage(message.id, message.bot, message.chanOk, message.content)
  /\ UNCHANGED routerFailing
  /\ UNCHANGED << mainPc, isDiscordConnected, readyPc, currentSession, shutdownPc, shutdownLog >>
  /\ UNCHANGED pollVars
  /\ UNCHANGED exitVars
  /\ UNCHANGED ixVars

\* Events.MessageCreate for any other message
handleOtherMessage ==
  /\ Alive
  /\ readyPc # "waiting"
  /\ \E message \in OtherMessages :
       HandleMessage(message.id, message.bot, message.chanOk, message.content)
  /\ UNCHANGED routerFailing
  /\ UNCHANGED << mainPc, isDiscordConnected, readyPc, currentSession, shutdownPc, shutdownLog >>
  /\ UNCHANGED pollVars
  /\ UNCHANGED exitVars
  /\ UNCHANGED ixVars

\* the router's target stops or resumes accepting input
RouterFault ==
  /\ Alive
  /\ routerFailing' = ~routerFailing
  /\ UNCHANGED << dedup, routed, evicted, dropped, routeRejected, filteredSeen,
                  lateInboundWrite >>
  /\ UNCHANGED << mainPc, isDiscordConnected, readyPc, currentSession, shutdownPc, shutdownLog >>
  /\ UNCHANGED pollVars
  /\ UNCHANGED exitVars
  /\ UNCHANGED ixVars

\* the cache's cleanup timer: the TTL of the oldest entry has elapsed and the
\* entry is removed; a new TTL window starts for its key
Cleanup ==
  /\ Alive
  /\ ~deduplicatorDestroyed
  /\ dedup # << >>
  /\ dedup' = Tail(dedup)
  /\ routed' = [routed EXCEPT ![Head(dedup)] = 0]
  /\ evicted' = [evicted EXCEPT ![Head(dedup)] = FALSE]
  /\ dropped' = [dropped EXCEPT ![Head(dedup)] = FALSE]
  /\ routeRejected' = [routeRejected EXCEPT ![Head(dedup)] = FALSE]
  /\ UNCHANGED << routerFailing, filteredSeen, lateInboundWrite >>
  /\ UNCHANGED << mainPc, isDiscordConnected, readyPc, currentSession, shutdownPc, shutdownLog >>
  /\ UNCHANGED pollVars
  /\ UNCHANGED exitVars
  /\ UNCHANGED ixVars

-----------------------------------------------------------------------------
(* Slash commands: handleInteraction.                                      *)

\* interactionSendText and the sendHelp override: if (!replied) editReply,
\* else followUp
UsesEditReplyAlways(r) == TRUE
UsesEditReply(r) == ~r

\* one piece of command output is sent with the closure's flag being r: the
\* handler calls editReply or followUp and awaits the call
IssueOutput(r, editPc, followPc) ==
  /\ IF UsesEditReply(r)
       THEN /\ ixPc' = editPc
            /\ editCalls' = editCalls + 1
            /\ UNCHANGED followCalls
       ELSE /\ ixPc' = followPc
            /\ followCalls' = followCalls + 1
            /\ UNCHANGED editCalls
  /\ UNCHANGED replyCalls

\* the catch of handleInteraction: followUp if (interaction.deferred ||
\* interaction.replied), else reply; the handler awaits the call
ReportError ==
  /\ IF ixDeferred \/ ixReplied
       THEN /\ ixPc' = "errFollowUp"
            /\ followCalls' = followCalls + 1
            /\ UNCHANGED replyCalls
       ELSE /\ ixPc' = "errReply"
            /\ replyCalls' = replyCalls + 1
            /\ UNCHANGED followCalls
  /\ UNCHANGED editCalls

\* everything but the interaction's state
ixFrame ==
  /\ UNCHANGED << mainPc, isDiscordConnected, readyPc, currentSession, shutdownPc, shutdownLog >>
  /\ UNCHANGED pollVars
  /\ UNCHANGED msgVars
  /\ UNCHANGED exitVars

\* Events.InteractionCreate: handleInteraction up to await
\* interaction.deferReply(); it returns at once for what is no chat-input
\* command or comes from another channel
InteractionCreate ==
  /\ Alive
  /\ readyPc # "waiting"
  /\ ixPc \in {"idle", "done"}
  /\ \E isChatInputCommand \in BOOLEAN, chanOk \in BOOLEAN :
       ixPc' = IF isChatInputCommand /\ chanOk THEN "deferring" ELSE "done"
  /\ replied' = FALSE
  /\ ixDeferred' = FALSE
  /\ ixReplied' = FALSE
  /\ chunksLeft' = 0
  /\ helpPc' = "none"
  /\ outputsLeft' = MaxOutputs
  /\ editCalls' = 0
  /\ followCalls' = 0
  /\ replyCalls' = 0
  /\ delivered' = 0
  /\ ixFrame

\* await interaction.deferReply() settles: resolved, the command handler is
\* entered; rejected, the catch reports the error
DeferSettle ==
  /\ Alive
  /\ ixPc = "deferring"
  /\ \/ /\ ixDeferred' = TRUE
        /\ ixPc' = "handling"
        /\ UNCHANGED << editCalls, followCalls, replyCalls >>
     \/ /\ ReportError
        /\ UNCHANGED ixDeferred
  /\ UNCHANGED << replied, ixReplied, chunksLeft, helpPc, outputsLeft, delivered >>
  /\ ixFrame

\* the command handler runs to its next await or to its end: it returns, it
\* throws, it sends a text of n chunks (interactionSendText), or it sends the
\* help (sendHelp, whose embed cannot be built or is sent)
CommandStep ==
  /\ Alive
  /\ ixPc = "handling"
  /\ \/ /\ ixPc' = "done"
        /\ UNCHANGED << chunksLeft, helpPc, outputsLeft, editCalls, followCalls, replyCalls >>
     \/ /\ ReportError
        /\ UNCHANGED << chunksLeft, helpPc, outputsLeft >>
     \/ /\ outputsLeft > 0
        /\ outputsLeft' = outputsLeft - 1
        /\ \E n \in 1..MaxChunks : chunksLeft' = n
        /\ helpPc' = "none"
        /\ IssueOutput(replied, "editing", "following")
     \/ /\ outputsLeft > 0
        /\ outputsLeft' = outputsLeft - 1
        /\ \E embedBuilt \in BOOLEAN :
             IF embedBuilt
               THEN /\ chunksLeft' = 0
                    /\ helpPc' = "none"
                    /\ IssueOutput(replied, "helpEditing", "helpFollowing")
               ELSE /\ chunksLeft' = 1
                    /\ helpPc' = "fallback"
                    /\ IssueOutput(replied, "editing", "following")
  /\ UNCHANGED << replied, ixDeferred, ixReplied, delivered >>
  /\ ixFrame

\* await interaction.editReply(chunk) or followUp(chunk) settles in
\* interactionSendText. Resolved: replied = true, and the loop sends the next
\* chunk or the text is done. Rejected: the error leaves interactionSendText
\* and the command handler and reaches the catch.
ChunkSettle ==
  /\ Alive
  /\ ixPc \in {"editing", "following"}
  /\ \/ /\ replied' = TRUE
        /\ ixReplied' = (ixReplied \/ ixPc = "editing")
        /\ delivered' = delivered + 1
        /\ chunksLeft' = chunksLeft - 1
        /\ IF chunksLeft > 1
             THEN IssueOutput(TRUE, "editing", "following")
             ELSE /\ ixPc' = "handling"
                  /\ UNCHANGED << editCalls, followCalls, replyCalls >>
     \/ /\ ReportError
        /\ UNCHANGED << replied, ixReplied, delivered, chunksLeft >>
  /\ UNCHANGED << ixDeferred, helpPc, outputsLeft >>
  /\ ixFrame

\* await interaction.editReply / followUp({ embeds }) settles in sendHelp.
\* Resolved: replied = true after editReply, sendHelp returns. Rejected:
\* sendHelp's catch sends the help as plain text with interactionSendText.
HelpSettle ==
  /\ Alive
  /\ ixPc \in {"helpEditing", "helpFollowing"}
  /\ \/ /\ replied' = (replied \/ ixPc = "helpEditing")
        /\ ixReplied' = (ixReplied \/ ixPc = "helpEditing")
        /\ delivered' = delivered + 1
        /\ ixPc' = "handling"
        /\ UNCHANGED << chunksLeft, helpPc, editCalls, followCalls, replyCalls >>
     \/ /\ chunksLeft' = 1
        /\ helpPc' = "fallback"
        /\ IssueOutput(replied, "editing", "following")
        /\ UNCHANGED << replied, ixReplied, delivered >>
  /\ UNCHANGED << ixDeferred, outputsLeft >>
  /\ ixFrame

\* the error report of the catch settles; a rejection is logged
ErrorSettle ==
  /\ Alive
  /\ ixPc \in {"errFollowUp", "errReply"}
  /\ ixPc' = "done"
  /\ \E ok \in BOOLEAN : ixReplied' = (ixReplied \/ (ok /\ ixPc = "errReply"))
  /\ UNCHANGED << replied, ixDeferred, chunksLeft, helpPc, outputsLeft, editCalls,
                  followCalls, replyCalls, delivered >>
  /\ ixFrame

-----------------------------------------------------------------------------
\* startup, the ClientReady handler and shutdown
Lifecycle ==
  \/ MainStart
  \/ LoginResolve
  \/ LoginReject
  \/ ClientReadyBegin
  \/ ClientReadyFinish
  \/ ShutdownBegin
  \/ ShutdownResume

\* the monitoring loop's callbacks
Polling ==
  \/ scheduleNextPoll
  \/ ProcTimeout
  \/ ProcError
  \/ ProcClose
  \/ DetectSettle
  \/ SendSettle

\* a switch command makes another session the current one
SwitchSession ==
  /\ mainPc = "running"
  /\ readyPc = "done"
  /\ \E s \in (Sessions \cup LaterSessions) \ {currentSession} : currentSession' = s
  /\ UNCHANGED << mainPc, isDiscordConnected, readyPc, shutdownPc, shutdownLog >>
  /\ UNCHANGED pollVars
  /\ UNCHANGED msgVars
  /\ UNCHANGED exitVars
  /\ UNCHANGED ixVars

\* the inbound message callbacks
Inbound ==
  \/ handleDiscordMessage
  \/ Cleanup

\* the handlers of process-level faults
Faults ==
  \/ UncaughtException
  \/ UnhandledRejection

\* the slash command callbacks
Interaction ==
  \/ InteractionCreate
  \/ DeferSettle
  \/ CommandStep
  \/ ChunkSettle
  \/ HelpSettle
  \/ ErrorSettle

Next ==
  \/ Lifecycle
  \/ Polling
  \/ Inbound
  \/ Faults
  \/ SwitchSession
  \/ RouterFault
  \/ handleOtherMessage
  \/ Interaction

Spec == Init /\ [][Next]_vars

\* the service without process-level faults
ServiceSpec == Init /\ [][Lifecycle \/ Polling \/ Inbound]_vars

\* the monitoring loop with session switches
SessionSpec == Init /\ [][Lifecycle \/ Polling \/ SwitchSession]_vars

\* slash commands
InteractionSpec == Init /\ [][Lifecycle \/ Interaction]_vars

\* inbound messages of every kind
FilterSpec == Init /\ [][Lifecycle \/ Inbound \/ handleOtherMessage]_vars

\* inbound messages with a router that can fail
RouteSpec == Init /\ [][Lifecycle \/ Inbound \/ RouterFault]_vars

\* startup, shutdown and the fault handlers, with inbound messages
FaultSpec == Init /\ [][Lifecycle \/ Faults \/ Inbound]_vars

\* the service with no inbound message delivered
PollSpec == Init /\ [][Lifecycle \/ Polling]_vars

\* the service with no timer firing
InboundSpec == Init /\ [][Lifecycle \/ Inbound]_vars

\* the event loop runs a fired timer's callback, and a sampling process closes
\* (it exits, or the process manager kills it on its 10 s timeout)
FairPollSpec == PollSpec /\ WF_vars(scheduleNextPoll) /\ WF_vars(ProcClose)

-----------------------------------------------------------------------------
(* The claims.                                                             *)

\* position of a step in the shutdown log, 0 if it is not there
Pos(step) ==
  IF step \in Range(shutdownLog)
    THEN CHOOSE i \in 1..Len(shutdownLog) : shutdownLog[i] = step
    ELSE 0

\* step a is in the log, before step b
Precedes(a, b) == Pos(a) > 0 /\ Pos(a) < Pos(b)

\* C1: at most one sampling process spawned by scheduleNextPoll is in flight
\* (spawned, 'close' not yet emitted) in every reachable state.
C1_AtMostOneInFlight == InFlight <= 1

\* C2: whenever a sampling process closes while isDiscordConnected is true, a
\* next tick is armed (monitorTimeout refers to a new pending timer), whether
\* the sample was empty or not and whether the process was killed or not; an
\* 'error' event arms one too; and, under fairness, once the loop has been
\* started the service samples again and again until shutdown is called.
C2_AlwaysReschedules ==
  /\ [][(InFlight' < InFlight /\ isDiscordConnected)
          => (monitorTimeout' = "pending" /\ PendingTimers' = PendingTimers + 1)]_vars
  /\ [][procs'["errored"] > procs["errored"] => PendingTimers' = PendingTimers + 1]_vars
  /\ \/ <>[](readyPc # "done" \/ currentSession = NoSession \/ shutdownPc # "idle")
     \/ []<><<scheduleNextPoll /\ InFlight' = InFlight + 1>>_vars

\* C2 witness: a process has emitted 'error', a classification has been
\* rejected, and the loop is between two samples with a tick pending.
C2_Witness ==
  /\ errBudget = 0
  /\ lastEval.result = "rejected"
  /\ InFlight = 0
  /\ monitorTimeout = "pending"
  /\ shutdownPc = "idle"

\* C3 (as stated): within the TTL window of a message id, router.route is
\* invoked at most once for it, whatever else is delivered.
C3_RoutedOncePerTtl == \A id \in MsgIds : routed[id] <= 1

\* C3 (amended): an id that is in the cache has been routed, and an id is
\* routed at most once within its TTL window unless the cache has evicted it
\* under size pressure in that window.
C3_RoutedOnceUnlessEvicted ==
  \A id \in MsgIds :
    /\ isProcessed(dedup, id) => routed[id] >= 1
    /\ ~evicted[id] => routed[id] <= 1

\* C3 witness: an id was routed once and a redelivery of it was dropped.
C3_Witness == \E id \in MsgIds : routed[id] = 1 /\ dropped[id] /\ ~evicted[id]

\* C4: the last evaluated sample invoked handleStateChange once if its
\* classification resolved to a non-null result and not at all otherwise; and
\* a sample classified input_prompt followed by one classified null sent one
\* notification between them.
C4_HandlerOncePerTick ==
  /\ lastEval.hsc = (IF lastEval.result \in DetectTypes THEN 1 ELSE 0)
  /\ (prevEval.prompt /\ lastEval.result = "null") => prevEval.sent + lastEval.sent = 1

\* C4 witness: a sample classified input_prompt was followed by one classified null.
C4_Witness == prevEval.prompt /\ lastEval.result = "null"

C7_AttentionStatesNotify ==
  lastEval.result \in {"input_prompt", "completed", "error"} => lastEval.sent >= 1

\* C8: after shutdown has run its clearTimeout(monitorTimeout), no next-tick
\* timer becomes pending and no sampling process is spawned.
C8_StoppedAfterShutdown ==
  [][Pos("clearTimeout") > 0
       => (PendingTimers' <= PendingTimers /\ InFlight' <= InFlight)]_vars

\* C9: shutdown cancels the pending timer monitorTimeout refers to as its
\* first step; stop() is called next and has resolved before either cache is
\* destroyed; the deduplicator is destroyed before messageHistory; the client
\* is destroyed only after all of these.
C9_ShutdownOrder ==
  /\ [][(shutdownPc = "idle" /\ shutdownPc' = "awaitStop" /\ monitorTimeout = "pending")
          => (monitorTimeout' = "spent" /\ Head(shutdownLog') = "clearTimeout")]_vars
  /\ [](Pos("clearTimeout") <= 1)
  /\ [](Pos("stopResolved") > 0 => Precedes("stopCalled", "stopResolved"))
  /\ [](Pos("dedupDestroy") > 0 => Precedes("stopResolved", "dedupDestroy"))
  /\ [](Pos("historyDestroy") > 0 => Precedes("dedupDestroy", "historyDestroy"))
  /\ [](Pos("clientDestroy") > 0 => Precedes("historyDestroy", "clientDestroy"))

\* C9 witness: a shutdown that cancelled the timer has destroyed the client.
C9_Witness == clientDestroyed /\ Pos("clearTimeout") = 1 /\ mainPc = "exited"

\* C10: markProcessed never runs after deduplicator.destroy() and no
\* state-change notification is sent after messageHistory.destroy().
C10_NoWriteAfterDestroy == ~lateInboundWrite /\ ~lateOutboundSend

\* C10 witness: the process has exited with both caches destroyed while a
\* classification was pending, a timer was pending and the inbound cache held a key.
C10_Witness ==
  /\ mainPc = "exited"
  /\ deduplicatorDestroyed
  /\ messageHistoryDestroyed
  /\ detecting > 0
  /\ PendingTimers > 0
  /\ dedup # << >>

\* C11: scheduleNextPoll spawns a sampling process only when no
\* classification (detector.detect) and no state-change handling
\* (handleStateChange awaiting its send) of an earlier sample is pending.
C11_NoSpawnWhileEvaluating ==
  [][InFlight' > InFlight => (detecting = 0 /\ sending = 0)]_vars

\* C13: a notification send that is pending (it may never settle) or that
\* fails does not hold up the loop: a close while the flag is true arms the
\* next tick also while a send is pending; a send that settles changes nothing
\* of the loop and starts no other send; a send starts only in the step that
\* settles a classification; and, under fairness that does not include the
\* send, a tick pending beside a pending send still leads to a new sample
\* unless shutdown is called.
C13_SendDoesNotBlockLoop ==
  /\ [][(InFlight' < InFlight /\ isDiscordConnected /\ sending > 0)
          => PendingTimers' = PendingTimers + 1]_vars
  /\ [][sending' < sending
          => UNCHANGED << monitorTimeout, orphanTimers, procs, detecting, lastEval >>]_vars
  /\ [][sending' > sending => detecting' = detecting - 1]_vars
  /\ (sending > 0 /\ PendingTimers > 0 /\ shutdownPc = "idle")
       ~> (InFlight > 0 \/ shutdownPc # "idle")

\* C13 witness: a send is still pending while the next sample is in flight.
C13_Witness == sending > 0 /\ InFlight > 0 /\ shutdownPc = "idle"

\* C16: at most one next-tick timer is pending, and monitorTimeout refers to it.
C16_SingleTrackedTimer == orphanTimers = 0 /\ PendingTimers <= 1

\* C15: when main() fails fatally during startup after components were
\* started (discordClient.login rejects), the process exits with a non-zero
\* code only after shutdown() has been attempted.
C15_ShutdownBeforeFatalExit ==
  (mainPc = "exited" /\ mainFailed = "login")
    => (exitCode = "1" /\ "stopCalled" \in Range(shutdownLog))

\* C20: a shutdown triggered by the uncaughtException handler, or by the
\* unhandledRejection handler in production, ends the process with exit
\* code 1; exit code 0 comes only from a signal-triggered shutdown.
C20_FaultExitsNonZero ==
  mainPc = "exited" =>
    /\ shutdownBy \in {"exception", "rejection"} => exitCode = "1"
    /\ exitCode = "0" => shutdownBy = "signal"

\* C12: a sample is written to the buffer and classified only if the session
\* that is current when its process closes is the session the process
\* sampled; a sample of a session switched away from is dropped.
C12_StaleSampleDropped == ~fedStale

\* C14: a tick whose sampling process emitted a spawn error or was killed on
\* its timeout sends no message to the chat: with shutdown never called, a
\* killed process was killed on its timeout, and the step that settles the
\* classification of its sample starts no send.
C14_FailedTickSendsNothing ==
  /\ [][procs'["errored"] # procs["errored"] => UNCHANGED << detecting, sending >>]_vars
  /\ [][(detectingKilled' < detectingKilled /\ shutdownPc = "idle")
          => sending' = sending]_vars

\* C14 as it holds: a tick whose process emitted a spawn error, or closed
\* without output, starts no classification and sends nothing, it only arms
\* the next tick; a process killed on its timeout leads to a message only as
\* the input_prompt or completed notification of the output it had written
\* before it was killed.
C14_FailureItselfNeverNotified ==
  /\ [][procs'["errored"] # procs["errored"] => UNCHANGED << detecting, sending >>]_vars
  /\ [][procs'["errored"] > procs["errored"] => PendingTimers' = PendingTimers + 1]_vars
  /\ lastEval.result = "empty" => (lastEval.hsc = 0 /\ lastEval.sent = 0)
  /\ [][(detectingKilled' < detectingKilled /\ sending' > sending)
          => lastEval'.result \in {"input_prompt", "completed"}]_vars

\* C14 witness: a process killed on its timeout has closed with a part of its
\* output, which is being classified, and the next tick is pending.
C14_Witness == detectingKilled > 0 /\ shutdownPc = "idle" /\ PendingTimers > 0

\* C17: the id is marked before router.route is called, so after a route call
\* for it rejected the id is in the cache with exactly one route call, and a
\* redelivery finds it there; the rejection ends in the handler's catch.
C17_NoRetryAfterReject ==
  \A id \in MsgIds :
    routeRejected[id] => (isProcessed(dedup, id) /\ routed[id] = 1)

\* C17 as it holds: the same, as long as the key has not been evicted under
\* size pressure; and every step that calls route leaves the id in the cache.
C17_NoRetryUnlessEvicted ==
  /\ \A id \in MsgIds :
       (routeRejected[id] /\ ~evicted[id]) => (isProcessed(dedup, id) /\ routed[id] = 1)
  /\ [][\A id \in MsgIds :
          (routed'[id] > routed[id] /\ routerFailing) => isProcessed(dedup', id)]_vars

\* C17 witness: a route call rejected, and a redelivery of its message was
\* dropped with the key still cached.
C17_Witness ==
  \E id \in MsgIds :
    routeRejected[id] /\ dropped[id] /\ ~evicted[id] /\ routed[id] = 1

\* C18: a message of a bot, of another channel, or with empty or blank
\* content leaves the inbound cache as it is and is not routed.
C18_FilteredLeavesNoTrace ==
  [][(\E id \in MsgIds, bot \in BOOLEAN, chanOk \in BOOLEAN, content \in Contents :
        /\ bot \/ ~chanOk \/ Len(content) = 0 \/ (\A i \in 1..Len(content) : content[i] = " ")
        /\ HandleMessage(id, bot, chanOk, content))
      => UNCHANGED << dedup, routed, evicted, dropped, routeRejected, lateInboundWrite >>]_vars

\* C18 witness: a message was filtered while the cache held the key of a
\* routed message.
C18_Witness == filteredSeen /\ dedup # << >> /\ \E id \in MsgIds : routed[id] = 1

\* what C19 says besides the number of editReply calls: no output call is
\* made before deferReply has completed; editReply is called only while no
\* output has been delivered, so every later output uses followUp, and a
\* followUp for output is called only once an output has been delivered; an
\* error after the defer is reported with followUp; reply is called only
\* when the interaction is neither deferred nor replied.
ReplyDiscipline ==
  /\ [][(editCalls' > editCalls \/ followCalls' > followCalls) => ixDeferred]_vars
  /\ [][editCalls' > editCalls => (~replied /\ delivered = 0)]_vars
  /\ [][(followCalls' > followCalls /\ ixPc' \in {"following", "helpFollowing"})
          => (replied /\ delivered > 0) \/ (ixPc = "editing" /\ delivered' > 0)]_vars
  /\ [][(ixDeferred /\ ixPc' \in {"errFollowUp", "errReply"} /\ ixPc' # ixPc)
          => (ixPc' = "errFollowUp" /\ followCalls' = followCalls + 1)]_vars
  /\ [][replyCalls' > replyCalls => (~ixDeferred /\ ~ixReplied)]_vars

\* C19: for a slash command of the target channel deferReply completes
\* before any output is sent, editReply is called at most once and only for
\* the first output, later outputs use followUp, an error after the defer is
\* reported with followUp, and reply is used only when the interaction is
\* neither deferred nor replied.
C19_EditReplyCalledOnce == [](editCalls <= 1) /\ ReplyDiscipline

\* C19 as it holds: the same, except that editReply is called a second time
\* when the editReply of the help embed rejected and sendHelp falls back to
\* plain text; no editReply call follows one that succeeded, and there are
\* never more than two.
C19_EditReplySucceedsOnce ==
  /\ [](editCalls <= 2)
  /\ [][(editCalls' > editCalls /\ editCalls > 0)
          => (ixPc = "helpEditing" /\ helpPc' = "fallback" /\ ~ixReplied)]_vars
  /\ ReplyDiscipline

\* C19 witness: the help embed's editReply rejected, the fallback text was
\* delivered with a second editReply, and a later output went out by followUp.
C19_Witness ==
  /\ ixPc = "done"
  /\ editCalls = 2
  /\ helpPc = "none"
  /\ followCalls > 0
  /\ delivered >= 2
  /\ replyCalls = 0

====
